---------------------------- MODULE Spec2Model ----------------------------
(***************************************************************************)
(* Model of src/src/filters.ts of refine-sqlx: the translation of Refine   *)
(* filters, sorters and pagination into Drizzle conditions, ORDER BY       *)
(* directives and an offset/limit pair.                                    *)
(*                                                                         *)
(* The three exported functions are pure.  Each is an operator that is     *)
(* computed as the TypeScript computes it; a thrown exception is a value   *)
(* (k = "throw") that every caller propagates at the point where the       *)
(* JavaScript would unwind.  The state machine is a caller that picks an   *)
(* input from a bounded set, calls one function and records what came back.*)
(***************************************************************************)
EXTENDS Integers, Sequences, FiniteSets

VARIABLES pc, call, result

vars == <<pc, call, result>>

(***************************************************************************)
(* Bounds of the model.                                                    *)
(***************************************************************************)
\* longest operand array (between/in operands)
MaxArr == 3
\* most filter entries (at all nesting levels together) in one filter list
MaxEntries == 3
\* longest sorter list
MaxSorters == 3
\* largest |current| and |pageSize| of a pagination request
MaxPage == 4

(***************************************************************************)
(* JavaScript values.  A string is a sequence of one-character strings.    *)
(***************************************************************************)
Undef == [t |-> "undef"]
Null == [t |-> "null"]
Bool(b) == [t |-> "bool", b |-> b]
Num(n) == [t |-> "num", n |-> n]
Str(s) == [t |-> "str", s |-> s]
Arr(a) == [t |-> "arr", a |-> a]
\* an object literal: `has` are its own property names among field, operator
\* and order; value is its `value` property (Undef when it has none)
Obj(has, field, operator, value) ==
  [t |-> "obj", has |-> has, field |-> field, operator |-> operator, value |-> value]

\* Array.isArray(v)
IsArray(v) == v.t = "arr"

\* the truthiness of v, as in `value ? a : b`
Truthy(v) ==
  CASE v.t = "undef" -> FALSE
    [] v.t = "null" -> FALSE
    [] v.t = "bool" -> v.b
    [] v.t = "num" -> v.n # 0
    [] v.t = "str" -> v.s # <<>>
    [] OTHER -> TRUE

Digits == <<"0", "1", "2", "3", "4", "5", "6", "7", "8", "9">>

RECURSIVE NatToString(_)
NatToString(n) ==
  IF n < 10 THEN <<Digits[n + 1]>>
  ELSE NatToString(n \div 10) \o <<Digits[(n % 10) + 1]>>

\* String(v), the conversion a template literal `${v}` applies
RECURSIVE ToString(_)
RECURSIVE JoinFrom(_, _)
JoinFrom(a, i) ==
  IF i > Len(a) THEN <<>>
  ELSE (IF i > 1 THEN <<",">> ELSE <<>>)
       \o (IF a[i].t \in {"undef", "null"} THEN <<>> ELSE ToString(a[i]))
       \o JoinFrom(a, i + 1)
ToString(v) ==
  CASE v.t = "undef" -> <<"u", "n", "d", "e", "f", "i", "n", "e", "d">>
    [] v.t = "null" -> <<"n", "u", "l", "l">>
    [] v.t = "bool" -> IF v.b THEN <<"t", "r", "u", "e">> ELSE <<"f", "a", "l", "s", "e">>
    [] v.t = "num" -> IF v.n < 0 THEN <<"-">> \o NatToString(-v.n) ELSE NatToString(v.n)
    [] v.t = "str" -> v.s
    [] v.t = "arr" -> JoinFrom(v.a, 1)
    [] OTHER -> <<"[", "o", "b", "j", "e", "c", "t", " ", "O", "b", "j", "e", "c", "t", "]">>

(***************************************************************************)
(* Outcomes of a call: a thrown exception, or a returned value.            *)
(***************************************************************************)
Throw(error, message, arg) == [k |-> "throw", error |-> error, message |-> message, arg |-> arg]
IsThrow(r) == r.k = "throw"
Undefined == [k |-> "undefined"]

\* `'prop' in v`: a TypeError on a primitive, own-property lookup on an object
InThrows(v) == v.t \in {"undef", "null", "bool", "num", "str"}
TypeErrorIn(v) == Throw("TypeError", "Cannot use 'in' operator", ToString(v))
HasProp(v, prop) == v.t = "obj" /\ prop \in v.has


(***************************************************************************)
(* The column mapping is a plain object whose own keys are the field names *)
(* of `columns`; every own value is a column handle.  A property read      *)
(* columns[key] also finds what the object inherits from Object.prototype. *)
(***************************************************************************)
ObjectPrototypeKeys == {"constructor", "toString"}

Column(name) == [k |-> "column", name |-> name]

\* columns[key]
ColumnsGet(columns, key) ==
  IF key \in columns THEN Column(key)
  ELSE IF key \in ObjectPrototypeKeys THEN [k |-> "inherited", name |-> key]
  ELSE Undefined

\* f.field as a property key (a missing property reads as undefined)
FieldKey(f) == IF HasProp(f, "field") THEN f.field ELSE "undefined"

\* new Error(`Column "${String(f.field)}" not found in schema`)
ColumnNotFound(key) == Throw("Error", "Column not found in schema", key)

(***************************************************************************)
(* The drizzle-orm operators filters.ts imports, as the expressions they   *)
(* build.                                                                  *)
(***************************************************************************)
Binary(op, left, right) == [k |-> "sql", op |-> op, left |-> left, right |-> right]
eq(column, value) == Binary("eq", column, value)
ne(left, value) == Binary("ne", left, value)
lt(column, value) == Binary("lt", column, value)
lte(column, value) == Binary("lte", column, value)
gt(column, value) == Binary("gt", column, value)
gte(column, value) == Binary("gte", column, value)
inArray(column, values) == Binary("inArray", column, values)
notInArray(column, values) == Binary("notInArray", column, values)
like(column, pattern) == Binary("like", column, Str(pattern))
isNull(column) == [k |-> "sql", op |-> "isNull", left |-> column]
isNotNull(column) == [k |-> "sql", op |-> "isNotNull", left |-> column]
between(column, min, max) == [k |-> "sql", op |-> "between", left |-> column, min |-> min, max |-> max]
notBetween(column, min, max) == [k |-> "sql", op |-> "notBetween", left |-> column, min |-> min, max |-> max]
\* and(...conditions) / or(...conditions): undefined for no condition
and(conditions) == IF conditions = <<>> THEN Undefined ELSE [k |-> "sql", op |-> "and", args |-> conditions]
or(conditions) == IF conditions = <<>> THEN Undefined ELSE [k |-> "sql", op |-> "or", args |-> conditions]
asc(column) == [k |-> "sql", op |-> "asc", left |-> column]
desc(column) == [k |-> "sql", op |-> "desc", left |-> column]

\* value[i] of a JavaScript array, 0-based (undefined past the end)
At(value, i) == IF i < Len(value.a) THEN value.a[i + 1] ELSE Undef

\* Array.isArray(value) ? value : [value]
AsArray(value) == IF IsArray(value) THEN value ELSE Arr(<<value>>)

BetweenError == Throw("Error", "Between operator requires an array of two values", "")

\* new Error(`Unsupported operator: ${operator}`)
UnsupportedOperator(operator) == Throw("Error", "Unsupported operator", operator)

\* Negated that compares with eq instead of ne
NegatedAsEq(condition) == eq(condition, Bool(TRUE))

\* the negated pattern match: ne(like(...), true)
Negated(condition) == ne(condition, Bool(TRUE))

\* BetweenMalformed that lets a longer array through
BetweenMalformedShortOnly(value) == ~IsArray(value) \/ Len(value.a) < 2

\* !Array.isArray(value) || value.length !== 2
BetweenMalformed(value) == ~IsArray(value) \/ Len(value.a) # 2

(***************************************************************************)
(* filterToCondition: one field filter to one condition.                   *)
(***************************************************************************)
filterToCondition(column, operator, value) ==
  CASE operator = "eq" -> eq(column, value)
    [] operator = "ne" -> ne(column, value)
    [] operator = "lt" -> lt(column, value)
    [] operator = "lte" -> lte(column, value)
    [] operator = "gt" -> gt(column, value)
    [] operator = "gte" -> gte(column, value)
    [] operator = "in" -> inArray(column, AsArray(value))
    [] operator = "nin" -> notInArray(column, AsArray(value))
    [] operator \in {"contains", "containss"} ->
         IF operator = "containss"
         THEN like(column, <<"%">> \o ToString(value) \o <<"%">>)
         ELSE like(column, <<"%">> \o ToString(value) \o <<"%">>)
    [] operator \in {"ncontains", "ncontainss"} ->
         Negated(like(column, <<"%">> \o ToString(value) \o <<"%">>))
    [] operator = "startswith" -> like(column, ToString(value) \o <<"%">>)
    [] operator = "nstartswith" -> Negated(like(column, ToString(value) \o <<"%">>))
    [] operator = "endswith" -> like(column, <<"%">> \o ToString(value))
    [] operator = "nendswith" -> Negated(like(column, <<"%">> \o ToString(value)))
    [] operator = "null" -> IF Truthy(value) THEN isNull(column) ELSE isNotNull(column)
    [] operator = "nnull" -> IF Truthy(value) THEN isNotNull(column) ELSE isNull(column)
    [] operator = "between" ->
         IF BetweenMalformed(value) THEN BetweenError
         ELSE between(column, At(value, 0), At(value, 1))
    [] operator = "nbetween" ->
         IF BetweenMalformed(value) THEN BetweenError
         ELSE notBetween(column, At(value, 0), At(value, 1))
    [] OTHER -> UnsupportedOperator(operator)

(***************************************************************************)
(* filtersToWhere.                                                         *)
(***************************************************************************)
\* the predicate of filter.value.filter(...): 'field' in f && 'operator' in f
NestedWellFormed(f) == HasProp(f, "field") /\ HasProp(f, "operator")

\* filter.value.filter(...): the whole list is filtered before any entry is
\* mapped; `in` throws on the first entry that is not an object
NestedFilter(list) ==
  IF \E i \in 1..Len(list) : InThrows(list[i])
  THEN TypeErrorIn(list[CHOOSE i \in 1..Len(list) :
                          InThrows(list[i]) /\ \A j \in 1..(i - 1) : ~InThrows(list[j])])
  ELSE [k |-> "list", items |-> SelectSeq(list, NestedWellFormed)]

\* the callback of .map(...): column lookup, then filterToCondition
FieldFilterCondition(f, columns) ==
  LET column == ColumnsGet(columns, FieldKey(f))
  IN IF column = Undefined THEN ColumnNotFound(FieldKey(f))
     ELSE filterToCondition(column, f.operator, f.value)

\* .map(...) over the filtered entries from entry i on; the first exception
\* ends it
RECURSIVE NestedMap(_, _, _, _)
NestedMap(items, columns, i, acc) ==
  IF i > Len(items) THEN [k |-> "list", items |-> acc]
  ELSE LET c == FieldFilterCondition(items[i], columns)
       IN IF IsThrow(c) THEN c
          ELSE NestedMap(items, columns, i + 1, Append(acc, c))

\* nestedConditions of a combinator whose value is an array
NestedConditions(filter, columns) ==
  LET kept == NestedFilter(filter.value.a)
  IN IF IsThrow(kept) THEN kept ELSE NestedMap(kept.items, columns, 1, <<>>)

\* Combine with the two tags taken for each other
CombineSwapped(operator, nestedConditions) ==
  IF operator = "and" THEN or(nestedConditions) ELSE and(nestedConditions)

\* the sub-condition a combinator pushes for its nested conditions
Combine(operator, nestedConditions) ==
  IF operator = "or" THEN or(nestedConditions) ELSE and(nestedConditions)

\* Combined that takes a single condition for none
CombinedOffByOne(conditions) ==
  IF Len(conditions) <= 1 THEN Undefined ELSE and(conditions)

\* what filtersToWhere returns once the loop is over
Combined(conditions) ==
  IF Len(conditions) = 0 THEN Undefined ELSE and(conditions)

\* the body of `for (const filter of filters)` from entry i on, with the
\* conditions pushed so far, and the statements after the loop
RECURSIVE FiltersLoop(_, _, _, _)
FiltersLoop(filters, columns, i, conditions) ==
  IF i > Len(filters)
  THEN Combined(conditions)
  ELSE
    LET filter == filters[i]
    IN IF InThrows(filter) THEN TypeErrorIn(filter)
       ELSE IF HasProp(filter, "operator") /\ filter.operator \in {"or", "and"}
       THEN IF ~IsArray(filter.value)
            THEN FiltersLoop(filters, columns, i + 1, conditions)
            ELSE LET nested == NestedConditions(filter, columns)
                 IN IF IsThrow(nested) THEN nested
                    ELSE IF Len(nested.items) > 0
                    THEN FiltersLoop(filters, columns, i + 1,
                           Append(conditions, Combine(filter.operator, nested.items)))
                    ELSE FiltersLoop(filters, columns, i + 1, conditions)
       ELSE IF HasProp(filter, "field") /\ HasProp(filter, "operator")
       THEN LET c == FieldFilterCondition(filter, columns)
            IN IF IsThrow(c) THEN c
               ELSE FiltersLoop(filters, columns, i + 1, Append(conditions, c))
       ELSE FiltersLoop(filters, columns, i + 1, conditions)

\* filters is undefined or an array
filtersToWhere(filters, columns) ==
  IF ~Truthy(filters) \/ Len(filters.a) = 0 THEN Undefined
  ELSE FiltersLoop(filters.a, columns, 1, <<>>)

(***************************************************************************)
(* sortersToOrderBy.                                                       *)
(***************************************************************************)
\* SorterDirective with the two directions taken for each other
SorterDirectiveSwapped(sorter, columns) ==
  LET column == ColumnsGet(columns, FieldKey(sorter))
  IN IF column = Undefined THEN ColumnNotFound(FieldKey(sorter))
     ELSE IF HasProp(sorter, "order") /\ sorter.order = "desc" THEN asc(column)
     ELSE desc(column)

\* the callback of sorters.map(...)
SorterDirective(sorter, columns) ==
  LET column == ColumnsGet(columns, FieldKey(sorter))
  IN IF column = Undefined THEN ColumnNotFound(FieldKey(sorter))
     ELSE IF HasProp(sorter, "order") /\ sorter.order = "desc" THEN desc(column)
     ELSE asc(column)

RECURSIVE SortersMap(_, _, _, _)
SortersMap(sorters, columns, i, acc) ==
  IF i > Len(sorters) THEN [k |-> "list", items |-> acc]
  ELSE LET d == SorterDirective(sorters[i], columns)
       IN IF IsThrow(d) THEN d
          ELSE SortersMap(sorters, columns, i + 1, Append(acc, d))

sortersToOrderBy(sorters, columns) ==
  IF ~Truthy(sorters) \/ Len(sorters.a) = 0 THEN [k |-> "list", items |-> <<>>]
  ELSE SortersMap(sorters.a, columns, 1, <<>>)

(***************************************************************************)
(* calculatePagination.  The request is undefined or an object; each of    *)
(* mode, current and pageSize is a value or absent.                        *)
(***************************************************************************)
Absent == "absent"
NoLimit == 999999
DefaultCurrent == 1
DefaultPageSize == 10

\* a request object: mode is a tag or Absent; current and pageSize are numbers
\* or undefined
Pagination(mode, current, pageSize) ==
  [t |-> "pagination", mode |-> mode, current |-> current, pageSize |-> pageSize]

\* pagination?.mode
PageMode(pagination) == IF pagination.t = "undef" THEN Absent ELSE pagination.mode

\* pagination?.current, pagination?.pageSize
PageProp(pagination, prop) == IF pagination.t = "undef" THEN Undef ELSE pagination[prop]

\* Coalesce written with || : every falsy value takes the default
CoalesceFalsy(a, b) == IF a.t \in {"undef", "null"} \/ a.n = 0 THEN b ELSE a.n

\* a ?? b
Coalesce(a, b) == IF a.t \in {"undef", "null"} THEN b ELSE a.n

\* Offset for a 0-based page number
OffsetZeroBased(current, pageSize) == current * pageSize

\* (current - 1) * pageSize
Offset(current, pageSize) == (current - 1) * pageSize

calculatePagination(pagination) ==
  IF PageMode(pagination) \in {"off", "client"}
  THEN [k |-> "page", offset |-> 0, limit |-> NoLimit]
  ELSE LET current == Coalesce(PageProp(pagination, "current"), DefaultCurrent)
           pageSize == Coalesce(PageProp(pagination, "pageSize"), DefaultPageSize)
       IN [k |-> "page", offset |-> Offset(current, pageSize), limit |-> pageSize]

(***************************************************************************)
(* What a condition evaluates to on a row, in SQL's three-valued logic:    *)
(* "T", "F" or "N" (NULL).  The row is the value of the one column the     *)
(* condition is on: NULL, an integer or a text.  Values of different       *)
(* storage classes are never equal and every integer sorts before every    *)
(* text; LIKE is case-insensitive with the wildcards % and _.              *)
(***************************************************************************)
Not3(x) == CASE x = "T" -> "F" [] x = "F" -> "T" [] OTHER -> "N"
And3(x, y) ==
  IF x = "F" \/ y = "F" THEN "F" ELSE IF x = "T" /\ y = "T" THEN "T" ELSE "N"
Or3(x, y) == Not3(And3(Not3(x), Not3(y)))
Truth(b) == IF b THEN "T" ELSE "F"

\* the SQL value a parameter is bound as
Bind(v) ==
  CASE v.t \in {"undef", "null"} -> Null
    [] v.t = "bool" -> Num(IF v.b THEN 1 ELSE 0)
    [] v.t \in {"num", "str"} -> v
    [] OTHER -> Str(ToString(v))

\* the characters of the model's texts, in code-point order
Alphabet ==
  <<" ", "%", ",", "-", "0", "1", "2", "3", "4", "5", "6", "7", "8", "9",
    "A", "B", "O", "[", "]", "_",
    "a", "b", "c", "d", "e", "f", "i", "j", "l", "n", "o", "r", "s", "t", "u">>
CharCode(c) == CHOOSE i \in 1..Len(Alphabet) : Alphabet[i] = c
\* the upper-case form LIKE compares letters in
Lower == <<"a", "b", "c", "d", "e", "f", "i", "j", "l", "n", "o", "r", "s", "t", "u">>
Upper == <<"A", "B", "C", "D", "E", "F", "I", "J", "L", "N", "O", "R", "S", "T", "U">>
Fold(c) ==
  IF \E i \in 1..Len(Lower) : Lower[i] = c
  THEN Upper[CHOOSE i \in 1..Len(Lower) : Lower[i] = c]
  ELSE c

RECURSIVE TextLess(_, _)
TextLess(x, y) ==
  IF y = <<>> THEN FALSE
  ELSE IF x = <<>> THEN TRUE
  ELSE IF CharCode(Head(x)) # CharCode(Head(y)) THEN CharCode(Head(x)) < CharCode(Head(y))
  ELSE TextLess(Tail(x), Tail(y))

\* x < y on non-NULL values
ValueLess(x, y) ==
  CASE x.t = "num" /\ y.t = "num" -> x.n < y.n
    [] x.t = "num" /\ y.t = "str" -> TRUE
    [] x.t = "str" /\ y.t = "num" -> FALSE
    [] OTHER -> TextLess(x.s, y.s)

Eq3(x, y) == IF x.t = "null" \/ y.t = "null" THEN "N" ELSE Truth(x = y)
Lt3(x, y) == IF x.t = "null" \/ y.t = "null" THEN "N" ELSE Truth(ValueLess(x, y))
Le3(x, y) == Or3(Lt3(x, y), Eq3(x, y))

\* pattern p matches text s
RECURSIVE LikeMatch(_, _)
LikeMatch(p, s) ==
  IF p = <<>> THEN s = <<>>
  ELSE IF Head(p) = "%"
  THEN LikeMatch(Tail(p), s) \/ (s # <<>> /\ LikeMatch(p, Tail(s)))
  ELSE /\ s # <<>>
       /\ (Head(p) = "_" \/ Fold(Head(p)) = Fold(Head(s)))
       /\ LikeMatch(Tail(p), Tail(s))

Like3(x, pattern) ==
  IF x.t = "null" THEN "N" ELSE Truth(LikeMatch(pattern.s, ToString(x)))

\* x IN (values)
In3(x, values) ==
  IF Len(values) = 0 THEN "F"
  ELSE IF x.t = "null" THEN "N"
  ELSE IF \E i \in 1..Len(values) : Eq3(x, Bind(values[i])) = "T" THEN "T"
  ELSE IF \E i \in 1..Len(values) : Bind(values[i]).t = "null" THEN "N"
  ELSE "F"

\* the value of a condition used as an operand: 1, 0 or NULL
AsValue(x) == CASE x = "T" -> Num(1) [] x = "F" -> Num(0) [] OTHER -> Null

RECURSIVE Eval(_, _)
RECURSIVE EvalAll(_, _, _, _)
\* the AND (all = TRUE) or OR of the conditions from the i-th on
EvalAll(conditions, row, i, all) ==
  IF i > Len(conditions) THEN Truth(all)
  ELSE IF all THEN And3(Eval(conditions[i], row), EvalAll(conditions, row, i + 1, all))
  ELSE Or3(Eval(conditions[i], row), EvalAll(conditions, row, i + 1, all))
\* the left operand of a comparison: the row's value of the column, or
\* the value of a nested condition
Eval(c, row) ==
  LET left == IF c.left.k = "sql" THEN AsValue(Eval(c.left, row)) ELSE row
  IN CASE c.op = "and" -> EvalAll(c.args, row, 1, TRUE)
       [] c.op = "or" -> EvalAll(c.args, row, 1, FALSE)
       [] c.op = "eq" -> Eq3(left, Bind(c.right))
       [] c.op = "ne" -> Not3(Eq3(left, Bind(c.right)))
       [] c.op = "lt" -> Lt3(left, Bind(c.right))
       [] c.op = "lte" -> Le3(left, Bind(c.right))
       [] c.op = "gt" -> Lt3(Bind(c.right), left)
       [] c.op = "gte" -> Le3(Bind(c.right), left)
       [] c.op = "inArray" -> In3(left, c.right.a)
       [] c.op = "notInArray" -> Not3(In3(left, c.right.a))
       [] c.op = "like" -> Like3(left, c.right)
       [] c.op = "isNull" -> Truth(left.t = "null")
       [] c.op = "isNotNull" -> Truth(left.t # "null")
       [] c.op = "between" -> And3(Le3(Bind(c.min), left), Le3(left, Bind(c.max)))
       [] OTHER -> Not3(And3(Le3(Bind(c.min), left), Le3(left, Bind(c.max))))

\* the row values conditions are evaluated on
Rows ==
  {Null, Num(0), Num(5), Num(7), Num(18), Str(<<>>), Str(<<"a">>), Str(<<"b">>),
   Str(<<"A", "%">>), Str(<<"b", "a">>), Str(<<"5">>), Str(<<"b", "A", "%", "b">>)}

(***************************************************************************)
(* The inputs the caller draws from.                                       *)
(***************************************************************************)
FieldTags ==
  {"eq", "ne", "lt", "lte", "gt", "gte", "in", "nin", "contains", "containss",
   "ncontains", "ncontainss", "startswith", "nstartswith", "endswith",
   "nendswith", "null", "nnull", "between", "nbetween"}
CombinatorTags == {"or", "and"}
\* "regex" stands for every tag filterToCondition has no case for
Tags == FieldTags \cup CombinatorTags \cup {"regex"}

FullMapping == {"status", "age"}
Mappings == {FullMapping, {"age"}}

RECURSIVE SeqsUpTo(_, _)
SeqsUpTo(S, n) ==
  IF n = 0 THEN {<<>>}
  ELSE LET shorter == SeqsUpTo(S, n - 1)
       IN shorter \cup {Append(q, x) : q \in {r \in shorter : Len(r) = n - 1}, x \in S}

ScalarOperands ==
  {Undef, Null, Bool(TRUE), Bool(FALSE), Num(0), Num(5), Num(18),
   Str(<<>>), Str(<<"a">>), Str(<<"A", "%">>)}
ArrayOperands == {Arr(a) : a \in SeqsUpTo({Num(5), Str(<<"b">>)}, MaxArr)}
Operands == ScalarOperands \cup ArrayOperands

\* a field filter {field, operator, value}
FieldFilter(field, operator, value) == Obj({"field", "operator"}, field, operator, value)
\* a combinator {operator, value: [...]}
Combinator(operator, list) == Obj({"operator"}, "", operator, Arr(list))

\* one entry of every shape
SingleEntries ==
  {FieldFilter(f, o, v) : f \in {"age", "ghost", "constructor"}, o \in Tags, v \in Operands}
  \cup {Obj({"operator"}, "", o, v) : o \in Tags, v \in ScalarOperands}
  \cup {Obj({"field"}, f, "", Undef) : f \in {"age", "ghost"}}
  \cup {Obj({}, "", "", v) : v \in {Undef, Num(5)}}
  \cup {Null, Num(5), Arr(<<>>)}

\* the entry alone, at top level or inside one combinator
SingleEntryLists ==
  {<<e>> : e \in SingleEntries}
  \cup {<<Combinator(t, <<e>>)>> : t \in CombinatorTags, e \in SingleEntries}

\* the entries lists are composed of, by nesting depth (0 is the top level)
Leaves(d) ==
  CASE d = 0 ->
         {FieldFilter("status", "eq", Str(<<"a">>)), FieldFilter("ghost", "eq", Num(1)),
          FieldFilter("age", "regex", Num(1)), FieldFilter("age", "between", Arr(<<Num(5)>>)),
          FieldFilter("age", "or", Num(5)), FieldFilter("constructor", "eq", Num(1)),
          Obj({}, "", "", Undef), Null}
    [] d = 1 ->
         {FieldFilter("age", "gt", Num(18)), FieldFilter("age", "lt", Num(5)),
          FieldFilter("ghost", "eq", Num(1)), FieldFilter("age", "regex", Num(1)),
          FieldFilter("age", "or", Num(5)), Obj({"field"}, "age", "", Undef), Null}
    [] OTHER ->
         {FieldFilter("age", "gt", Num(18)), FieldFilter("ghost", "eq", Num(1))}

\* combinators nest to this depth: a combinator inside a combinator
MaxDepth == 2

\* entries of exactly k entries in all (the entry and what it nests), and
\* lists of exactly n
RECURSIVE EntriesOfSize(_, _)
RECURSIVE ListsOfSize(_, _)
EntriesOfSize(k, d) ==
  (IF k = 1 THEN Leaves(d) ELSE {})
  \cup (IF d < MaxDepth
        THEN {Combinator(t, l) : t \in CombinatorTags, l \in ListsOfSize(k - 1, d + 1)}
        ELSE {})
ListsOfSize(n, d) ==
  IF n = 0 THEN {<<>>}
  ELSE UNION {{<<e>> \o l : e \in EntriesOfSize(k, d), l \in ListsOfSize(n - k, d)} : k \in 1..n}

ComposedLists == UNION {ListsOfSize(n, 0) : n \in 0..MaxEntries}

\* the round-trip scenario of two siblings, and a list of two combinators
\* and a range filter
ExampleLists ==
  {<<FieldFilter("status", "eq", Str(<<"a">>)),
     Combinator("or", <<FieldFilter("age", "gt", Num(18)), FieldFilter("age", "lt", Num(5))>>)>>,
   <<Combinator("and", <<FieldFilter("age", "gte", Num(5)), FieldFilter("status", "ne", Str(<<"a">>))>>),
     Combinator("or", <<FieldFilter("age", "gt", Num(18)), Obj({}, "", "", Undef)>>),
     FieldFilter("age", "between", Arr(<<Num(5), Num(18)>>))>>}

FilterCalls ==
  {<<Undef, FullMapping>>}
  \cup {<<Arr(l), FullMapping>> : l \in SingleEntryLists}
  \cup {<<Arr(l), c>> : l \in ComposedLists \cup ExampleLists, c \in Mappings}

\* a sorter {field, order}
Sorter(has, field, order) == [t |-> "obj", has |-> has, field |-> field, order |-> order]
Sorters ==
  {Sorter({"field", "order"}, f, o) : f \in {"status", "age", "ghost"}, o \in {"asc", "desc", "DESC"}}
  \cup {Sorter({"field"}, f, "") : f \in {"status", "age"}}
  \cup {Sorter({"field", "order"}, "constructor", "desc")}
SorterCalls ==
  {<<Undef, FullMapping>>}
  \cup {<<Arr(l), c>> : l \in SeqsUpTo(Sorters, MaxSorters), c \in Mappings}

PageNumbers == {Undef} \cup {Num(n) : n \in (-MaxPage..MaxPage) \cup {10, 20}}
PaginationCalls ==
  {Undef}
  \cup {Pagination(m, c, p) : m \in {Absent, "off", "server", "client"},
                              c \in PageNumbers, p \in PageNumbers}

(***************************************************************************)
(* The caller.                                                             *)
(***************************************************************************)
Init ==
  /\ pc = "idle"
  /\ call = [fn |-> "none"]
  /\ result = Undefined

CallFiltersToWhere ==
  /\ pc = "idle"
  /\ \E in \in FilterCalls :
       /\ call' = [fn |-> "filtersToWhere", filters |-> in[1], columns |-> in[2]]
       /\ result' = filtersToWhere(in[1], in[2])
  /\ pc' = "done"

CallSortersToOrderBy ==
  /\ pc = "idle"
  /\ \E in \in SorterCalls :
       /\ call' = [fn |-> "sortersToOrderBy", sorters |-> in[1], columns |-> in[2]]
       /\ result' = sortersToOrderBy(in[1], in[2])
  /\ pc' = "done"

CallCalculatePagination ==
  /\ pc = "idle"
  /\ \E in \in PaginationCalls :
       /\ call' = [fn |-> "calculatePagination", pagination |-> in]
       /\ result' = calculatePagination(in)
  /\ pc' = "done"

Next == CallFiltersToWhere \/ CallSortersToOrderBy \/ CallCalculatePagination

Spec == Init /\ [][Next]_vars

(***************************************************************************)
(* Vocabulary of the properties.                                           *)
(***************************************************************************)
Done(fn) == pc = "done" /\ call.fn = fn

\* a filtersToWhere call on a list (not on an absent input)
FilterListCall == Done("filtersToWhere") /\ call.filters.t = "arr"

\* the entry carries both a field name and an operator tag
CarriesFieldAndTag(e) == e.t = "obj" /\ {"field", "operator"} \subseteq e.has

\* a combinator filter: tag and/or together with a sequence operand
IsCombinator(e) ==
  e.t = "obj" /\ "operator" \in e.has /\ e.operator \in CombinatorTags /\ e.value.t = "arr"

\* an entry lacking a field name or an operator tag, no combinator
Malformed(e) ==
  e.t = "obj" /\ ~CarriesFieldAndTag(e) /\ ~("operator" \in e.has /\ e.operator \in CombinatorTags)

\* a field filter that resolves: known column, enumerated tag, fit operand
Resolvable(e, columns) ==
  /\ CarriesFieldAndTag(e)
  /\ e.field \in columns
  /\ e.operator \in FieldTags
  /\ e.operator \in {"between", "nbetween"} => (e.value.t = "arr" /\ Len(e.value.a) = 2)

\* the entries a combinator nests
NestedOf(e) == IF IsCombinator(e) THEN {e.value.a[i] : i \in 1..Len(e.value.a)} ELSE {}

\* the entries of a list at top level, inside a combinator, and inside a
\* combinator that is inside a combinator
Level0(list) == {list[i] : i \in 1..Len(list)}
Level1(list) == UNION {NestedOf(e) : e \in Level0(list)}
Level2(list) == UNION {NestedOf(e) : e \in Level1(list)}

\* an entry that neither fails nor is a case of its own: it resolves, is
\* malformed, or is a combinator without a field name
Plain(e, columns) ==
  Resolvable(e, columns) \/ Malformed(e) \/ (IsCombinator(e) /\ "field" \notin e.has)

(***************************************************************************)
(* C1.  A field filter or a sorter that names a field outside the column   *)
(* mapping always fails with the unknown-column error naming the field.    *)
(***************************************************************************)
\* a field filter on a field that is no key of the mapping
UnknownFieldFilter(e, columns) ==
  CarriesFieldAndTag(e) /\ e.operator \notin CombinatorTags /\ e.field \notin columns

UnknownFieldFilters(list, columns) ==
  {e \in Level0(list) \cup Level1(list) \cup Level2(list) : UnknownFieldFilter(e, columns)}

\* C1: in a filter list whose other entries are all plain, a field filter on
\* an unknown field at top level, in a combinator, or in a combinator nested
\* in a combinator makes filtersToWhere fail with "Column not found" naming
\* that field; a sorter list with a sorter on an unknown field makes
\* sortersToOrderBy fail the same way.
C1_UnknownFieldAlwaysFails ==
  /\ (/\ FilterListCall
      /\ UnknownFieldFilters(call.filters.a, call.columns) # {}
      /\ \A e \in Level0(call.filters.a) \cup Level1(call.filters.a) \cup Level2(call.filters.a) :
           UnknownFieldFilter(e, call.columns) \/ Plain(e, call.columns))
     => /\ IsThrow(result)
        /\ result.message = "Column not found in schema"
        /\ \E e \in UnknownFieldFilters(call.filters.a, call.columns) : result.arg = e.field
  /\ (/\ Done("sortersToOrderBy")
      /\ call.sorters.t = "arr"
      /\ \E i \in 1..Len(call.sorters.a) : call.sorters.a[i].field \notin call.columns)
     => /\ IsThrow(result)
        /\ result.message = "Column not found in schema"
        /\ \E i \in 1..Len(call.sorters.a) :
             call.sorters.a[i].field \notin call.columns /\ result.arg = call.sorters.a[i].field

(***************************************************************************)
(* C2.  An entry with a field name and a tag outside the enumerated set    *)
(* fails with the unsupported-operator error.                              *)
(***************************************************************************)
\* an entry with field name and tag, on a known column, no combinator, whose
\* tag is outside the enumerated set
UnsupportedTagFilter(e, columns) ==
  /\ CarriesFieldAndTag(e)
  /\ ~IsCombinator(e)
  /\ e.field \in columns
  /\ e.operator \notin FieldTags

\* C2: in a filter list whose other entries are all plain, an entry at top
\* level or inside a combinator that carries a field name of the mapping
\* and a tag outside the enumerated set (and/or with a non-sequence operand
\* included) makes filtersToWhere fail with "Unsupported operator" naming
\* the tag.
C2_UnsupportedTagAlwaysFails ==
  (/\ FilterListCall
   /\ \E e \in Level0(call.filters.a) \cup Level1(call.filters.a) :
        UnsupportedTagFilter(e, call.columns)
   /\ \A e \in Level0(call.filters.a) \cup Level1(call.filters.a) :
        UnsupportedTagFilter(e, call.columns) \/ Plain(e, call.columns))
  => /\ IsThrow(result)
     /\ result.message = "Unsupported operator"
     /\ \E e \in Level0(call.filters.a) \cup Level1(call.filters.a) :
          UnsupportedTagFilter(e, call.columns) /\ result.arg = e.operator

(***************************************************************************)
(* C3.  Combinators contribute the OR/AND of their nested conditions, and  *)
(* the result is the AND of the top-level contributions, in input order.   *)
(***************************************************************************)
\* the well-formed field filters a combinator nests, in input order
WellFormedNested(e) == SelectSeq(e.value.a, CarriesFieldAndTag)

\* what a top-level entry contributes: nothing, or one condition
Contribution(e, columns) ==
  IF IsCombinator(e)
  THEN LET nested == WellFormedNested(e)
       IN IF nested = <<>> THEN <<>>
          ELSE <<[k |-> "sql", op |-> e.operator,
                  args |-> [j \in 1..Len(nested) |-> FieldFilterCondition(nested[j], columns)]]>>
  ELSE IF CarriesFieldAndTag(e) /\ e.operator \notin CombinatorTags
  THEN <<FieldFilterCondition(e, columns)>>
  ELSE <<>>

RECURSIVE Contributions(_, _, _)
Contributions(list, columns, i) ==
  IF i > Len(list) THEN <<>>
  ELSE Contribution(list[i], columns) \o Contributions(list, columns, i + 1)

\* a combinator whose nested list holds a resolvable field filter
ResolvingCombinator(e, columns) ==
  IsCombinator(e) /\ \E f \in NestedOf(e) : Resolvable(f, columns)

\* C3: when filtersToWhere returns a condition for a list with at least one
\* combinator that nests a resolvable field filter, the condition is the AND
\* of the top-level contributions in input order, where a combinator
\* contributes exactly one condition: the OR (tag or) or AND (tag and) of
\* the conditions of its well-formed nested field filters in input order.
C3_CombinatorsCombine ==
  (/\ FilterListCall
   /\ \E e \in Level0(call.filters.a) : ResolvingCombinator(e, call.columns)
   /\ ~IsThrow(result))
  => result = [k |-> "sql", op |-> "and",
               args |-> Contributions(call.filters.a, call.columns, 1)]

\* the round-trip scenario: status = 'a' AND (age > 18 OR age < 5)
C3_Witness ==
  /\ FilterListCall
  /\ call.filters.a =
       <<FieldFilter("status", "eq", Str(<<"a">>)),
         Combinator("or", <<FieldFilter("age", "gt", Num(18)), FieldFilter("age", "lt", Num(5))>>)>>
  /\ result =
       [k |-> "sql", op |-> "and",
        args |-> <<[k |-> "sql", op |-> "eq", left |-> [k |-> "column", name |-> "status"],
                    right |-> Str(<<"a">>)],
                   [k |-> "sql", op |-> "or",
                    args |-> <<[k |-> "sql", op |-> "gt", left |-> [k |-> "column", name |-> "age"],
                                right |-> Num(18)],
                               [k |-> "sql", op |-> "lt", left |-> [k |-> "column", name |-> "age"],
                                right |-> Num(5)]>>]>>]

(***************************************************************************)
(* C4.  A combinator whose nested list is empty or entirely malformed      *)
(* contributes nothing and does not fail.                                  *)
(***************************************************************************)
\* an entry of any shape that lacks a field name or an operator tag
LacksFieldOrTag(e) == ~CarriesFieldAndTag(e)

\* a combinator whose nested list is empty or holds malformed entries only
BarrenCombinator(e) == IsCombinator(e) /\ \A f \in NestedOf(e) : LacksFieldOrTag(f)

\* the list without its i-th entry
Without(list, i) == SubSeq(list, 1, i - 1) \o SubSeq(list, i + 1, Len(list))

\* C4: whenever the filter list holds a combinator whose nested list is
\* empty or consists only of entries lacking a field name or an operator
\* tag, the combinator alone translates to absent without failing, and the
\* call returns what it returns for the list without that combinator.
C4_BarrenCombinatorDropped ==
  FilterListCall =>
    \A i \in 1..Len(call.filters.a) :
      BarrenCombinator(call.filters.a[i]) =>
        /\ filtersToWhere(Arr(<<call.filters.a[i]>>), call.columns) = Undefined
        /\ result = filtersToWhere(Arr(Without(call.filters.a, i)), call.columns)

(***************************************************************************)
(* C5.  between/nbetween need an operand of exactly two elements.          *)
(***************************************************************************)
\* a between/nbetween field filter on a known column
RangeFilter(e, columns) ==
  CarriesFieldAndTag(e) /\ e.field \in columns /\ e.operator \in {"between", "nbetween"}

\* the operand is a sequence of exactly two elements
IsPair(v) == v.t = "arr" /\ Len(v.a) = 2

\* the range test of a range filter with a pair operand
RangeTest(e) ==
  [k |-> "sql", op |-> IF e.operator = "between" THEN "between" ELSE "notBetween",
   left |-> [k |-> "column", name |-> e.field], min |-> e.value.a[1], max |-> e.value.a[2]]

\* the conditions of a returned result: its top-level conjuncts and the
\* operands of those that are themselves AND/OR
Conjuncts(r) == {r.args[i] : i \in 1..Len(r.args)}
InnerOperands(r) ==
  UNION {{c.args[i] : i \in 1..Len(c.args)} : c \in {d \in Conjuncts(r) : d.op \in {"and", "or"}}}

\* C5: in a filter list whose other entries are all plain, a between or
\* nbetween field filter on a known column, at top level or inside a
\* combinator, whose operand is not a sequence of exactly two elements makes
\* filtersToWhere fail with the two-values error; when every such filter has
\* a two-element operand [low, high] the call does not fail and the result
\* holds its range test (between, or not-between for nbetween) on low, high.
C5_RangeOperand ==
  (/\ FilterListCall
   /\ \A e \in Level0(call.filters.a) \cup Level1(call.filters.a) : Plain(e, call.columns) \/ RangeFilter(e, call.columns))
  => /\ (\E e \in Level0(call.filters.a) \cup Level1(call.filters.a) :
           RangeFilter(e, call.columns) /\ ~IsPair(e.value))
        => result = [k |-> "throw", error |-> "Error",
                     message |-> "Between operator requires an array of two values", arg |-> ""]
     /\ (\A e \in Level0(call.filters.a) \cup Level1(call.filters.a) :
           RangeFilter(e, call.columns) => IsPair(e.value))
        => /\ ~IsThrow(result)
           /\ \A e \in Level0(call.filters.a) :
                RangeFilter(e, call.columns) => RangeTest(e) \in Conjuncts(result)
           /\ \A e \in Level1(call.filters.a) :
                RangeFilter(e, call.columns) => RangeTest(e) \in InnerOperands(result)

\* a malformed operand of three elements was rejected inside a combinator,
\* and a pair operand gave a range test
C5_Witness ==
  /\ FilterListCall
  /\ Len(call.filters.a) = 1
  /\ \E e \in Level1(call.filters.a) :
       RangeFilter(e, call.columns) /\ e.value.t = "arr" /\ Len(e.value.a) = 3
  /\ IsThrow(result)
  /\ result.message = "Between operator requires an array of two values"

(***************************************************************************)
(* C6.  calculatePagination: no pagination for mode off/client, otherwise  *)
(* offset = (current - 1) * pageSize and limit = pageSize with defaults.   *)
(***************************************************************************)
\* the request's mode, current and pageSize as the caller gave them
GivenMode == IF call.pagination.t = "undef" THEN "absent" ELSE call.pagination.mode
GivenCurrent ==
  IF call.pagination.t = "undef" \/ call.pagination.current.t = "undef" THEN 1
  ELSE call.pagination.current.n
GivenPageSize ==
  IF call.pagination.t = "undef" \/ call.pagination.pageSize.t = "undef" THEN 10
  ELSE call.pagination.pageSize.n

\* C6: with mode off or client calculatePagination returns offset 0 and
\* limit 999999 whatever current and pageSize are; otherwise (mode absent or
\* server, or no request at all) it returns offset (current - 1) * pageSize
\* and limit pageSize, an absent current being 1 and an absent pageSize 10.
C6_Pagination ==
  Done("calculatePagination") =>
    IF GivenMode \in {"off", "client"}
    THEN result.offset = 0 /\ result.limit = 999999
    ELSE result.offset = (GivenCurrent - 1) * GivenPageSize /\ result.limit = GivenPageSize

\* {current: 3, pageSize: 20} gave {offset: 40, limit: 20}
C6_Witness ==
  /\ Done("calculatePagination")
  /\ call.pagination = [t |-> "pagination", mode |-> "absent",
                        current |-> Num(3), pageSize |-> Num(20)]
  /\ result.offset = 40
  /\ result.limit = 20

(***************************************************************************)
(* C7.  Non-negativity of the pagination result.                           *)
(***************************************************************************)
\* C7 as claimed: for every request, zero and negative current and pageSize
\* included, the returned offset and limit are both non-negative.
C7_AlwaysNonNegative ==
  Done("calculatePagination") => result.offset >= 0 /\ result.limit >= 0

\* C7 as amended: the returned offset and limit are both non-negative
\* exactly when mode is off or client, or pageSize is 0, or pageSize is
\* positive and current is at least 1 (absent current 1, absent pageSize
\* 10); negative and zero values are passed through unclamped.
C7_NonNegativeWhenSane ==
  Done("calculatePagination") =>
    ((result.offset >= 0 /\ result.limit >= 0)
      <=> \/ GivenMode \in {"off", "client"}
          \/ GivenPageSize = 0
          \/ GivenPageSize > 0 /\ GivenCurrent >= 1)

\* {current: 0, pageSize: 10} gave offset -10
C7_Witness ==
  /\ Done("calculatePagination")
  /\ GivenMode = "server"
  /\ GivenCurrent = 0
  /\ GivenPageSize = 10
  /\ result.offset = -10
  /\ result.limit = 10

(***************************************************************************)
(* C8.  Sorters translate one to one, in input order.                      *)
(***************************************************************************)
\* C8: for a sorter list whose fields are all keys of the mapping the result
\* has the length of the input and its i-th directive is on the column of
\* the i-th sorter, descending exactly when that sorter's direction is desc
\* and ascending otherwise; an absent or empty list gives the empty sequence.
C8_SortersInOrder ==
  Done("sortersToOrderBy") =>
    IF call.sorters.t = "undef"
    THEN result = [k |-> "list", items |-> <<>>]
    ELSE (\A i \in 1..Len(call.sorters.a) : call.sorters.a[i].field \in call.columns)
         => /\ result.k = "list"
            /\ Len(result.items) = Len(call.sorters.a)
            /\ \A i \in 1..Len(call.sorters.a) :
                 result.items[i] =
                   [k |-> "sql",
                    op |-> IF "order" \in call.sorters.a[i].has /\ call.sorters.a[i].order = "desc"
                           THEN "desc" ELSE "asc",
                    left |-> [k |-> "column", name |-> call.sorters.a[i].field]]

\* two sorters on known columns, an unrecognized direction first and desc
\* second, gave ascending then descending
C8_Witness ==
  /\ Done("sortersToOrderBy")
  /\ call.sorters.t = "arr"
  /\ Len(call.sorters.a) = 2
  /\ call.sorters.a[1].order = "DESC"
  /\ call.sorters.a[2].order = "desc"
  /\ call.sorters.a[1].field # call.sorters.a[2].field
  /\ result.k = "list"
  /\ result.items[1].op = "asc"
  /\ result.items[2].op = "desc"

(***************************************************************************)
(* C9.  filtersToWhere returns absent exactly when nothing contributes.    *)
(***************************************************************************)
\* the top-level entry contributes a condition: a field filter, or a
\* combinator that nests at least one well-formed field filter
Contributes(e) ==
  \/ IsCombinator(e) /\ \E f \in NestedOf(e) : CarriesFieldAndTag(f)
  \/ CarriesFieldAndTag(e) /\ e.operator \notin CombinatorTags

Positive(tag) ==
  CASE tag = "nin" -> "in"
    [] tag = "ncontains" -> "contains"
    [] tag = "ncontainss" -> "containss"
    [] tag = "nstartswith" -> "startswith"
    [] tag = "nendswith" -> "endswith"
    [] tag = "nbetween" -> "between"
    [] OTHER -> "null"
NegatedTags ==
  {"nin", "ncontains", "ncontainss", "nstartswith", "nendswith", "nbetween", "nnull"}

\* the call translated one field filter on a known column into a condition
OneFilterCall ==
  /\ FilterListCall
  /\ Len(call.filters.a) = 1
  /\ Resolvable(call.filters.a[1], call.columns)
  /\ result.k = "sql"

\* the pattern of a pattern tag on operand v
PatternOf(tag, v) ==
  CASE tag \in {"contains", "containss", "ncontains", "ncontainss"} ->
         <<"%">> \o ToString(v) \o <<"%">>
    [] tag \in {"startswith", "nstartswith"} -> ToString(v) \o <<"%">>
    [] OTHER -> <<"%">> \o ToString(v)

NoError == [k |-> "none"]

\* the error of one processed field filter: the unknown-column check first,
\* then the tag, then the range operand
EntryError(e, columns) ==
  IF e.field \notin columns
  THEN [k |-> "throw", error |-> "Error", message |-> "Column not found in schema",
        arg |-> e.field]
  ELSE IF e.operator \notin FieldTags
  THEN [k |-> "throw", error |-> "Error", message |-> "Unsupported operator",
        arg |-> e.operator]
  ELSE IF e.operator \in {"between", "nbetween"} /\ ~IsPair(e.value)
  THEN [k |-> "throw", error |-> "Error",
        message |-> "Between operator requires an array of two values", arg |-> ""]
  ELSE NoError

\* the field filters that are processed, in input order from the i-th
\* top-level entry on: the well-formed nested entries of a combinator stand
\* at the combinator's position
RECURSIVE Processed(_, _)
Processed(list, i) ==
  IF i > Len(list) THEN <<>>
  ELSE (IF IsCombinator(list[i]) THEN SelectSeq(list[i].value.a, CarriesFieldAndTag)
        ELSE IF CarriesFieldAndTag(list[i]) /\ list[i].operator \notin CombinatorTags
        THEN <<list[i]>>
        ELSE <<>>)
       \o Processed(list, i + 1)

\* the error of the first entry of `entries` that fails, or NoError
RECURSIVE FirstError(_, _, _)
FirstError(entries, columns, i) ==
  IF i > Len(entries) THEN NoError
  ELSE IF EntryError(entries[i], columns) # NoError THEN EntryError(entries[i], columns)
  ELSE FirstError(entries, columns, i + 1)

\* C11: when a processed entry of a filter list (or a sorter of a sorter
\* list) fails with unknown column, unsupported operator or malformed range
\* operand, the call returns no condition or directive: it ends in the error
\* of the first failing entry in input order, nested entries standing at
\* their combinator's position, and within one entry the unknown-column
\* check comes before the operator and operand checks.
C11_FirstFailureWins ==
  /\ FilterListCall =>
       LET first == FirstError(Processed(call.filters.a, 1), call.columns, 1)
       IN first # NoError => result = first
  /\ (Done("sortersToOrderBy") /\ call.sorters.t = "arr") =>
       \A i \in 1..Len(call.sorters.a) :
         (/\ call.sorters.a[i].field \notin call.columns
          /\ \A j \in 1..(i - 1) : call.sorters.a[j].field \in call.columns)
         => result = [k |-> "throw", error |-> "Error",
                      message |-> "Column not found in schema",
                      arg |-> call.sorters.a[i].field]

=============================================================================
